---- MODULE Spec2Model ----
(***************************************************************************)
(* Model of one run of runAutomation (src/automation.js) together with the *)
(* job bookkeeping the start-automation handler does around the call       *)
(* (src/index.js).  A run is a sequential program; every awaited step is   *)
(* one action and the environment (browser, network, page content) picks   *)
(* the outcome of the step.  ServerSpec models the request handlers of     *)
(* src/index.js sharing the job registry, with each run seen through the   *)
(* way it settles.  BatchSpec models one batch request alone, with each    *)
(* run seen through the way its browser session opens.                     *)
(***************************************************************************)
EXTENDS Integers, Sequences, FiniteSets, TLC

\* ---------------------------------------------------------------- bounds
MaxElems == 2      \* elements in the content region of the modelled pages
NumCta   == 2      \* call-to-action phrases modelled (prefix of ctaTexts)
NumSel   == 2      \* button CSS/role selectors modelled (prefix of buttonSelectors)
NumRequests == 2   \* start-automation requests handled concurrently
MaxItems == 2      \* items in the urls array of a batch request
MaxLines == 2      \* lines in the logs of a job while its run is under way

\* ------------------------------------------------------- program constants
ClickCap        == 3   \* Math.min(3, allCandidates.length)
ButtonCap       == 3   \* buttonCandidates.length >= 3
LinkCap         == 3   \* linkCandidates.length >= 3
FallbackLinkCap == 5   \* Math.min(5, allLinks.length)

\* ------------------------------------------------------------------ values
Null        == "null"
TargetUrl   == "https://site.test/page"
UrlX        == "https://example.com/x"
UrlY        == "https://example.com/y"
UrlOther    == "https://site.test/other"
AboutBlank  == "about:blank"
ProxyP      == "proxy.test:8080"
DirectIp    == "203.0.113.1"
ProxyExitIp == "198.51.100.7"

Min(a, b) == IF a < b THEN a ELSE b
Take(s, n) == SubSeq(s, 1, Min(n, Len(s)))

\* ------------------------------------------------------------ page content
\* One element of the content region: its ARIA role, the call-to-action
\* phrases its accessible name matches, the button selector it matches
\* (0: none), whether it is visible, its href attribute ("" when absent or
\* empty) and whether it carries target=_blank.
Elem(role, cta, cls, vis, href, blank) ==
    [role |-> role, cta |-> cta, cls |-> cls, vis |-> vis, href |-> href, blank |-> blank]

BtnCls        == Elem("button", {},     1, TRUE,  "", FALSE)
BtnMulti      == Elem("button", {1, 2}, 2, TRUE,  "", FALSE)
BtnHidden     == Elem("button", {1},    1, FALSE, "", FALSE)
LnkCtaBlank   == Elem("link",   {1},    0, TRUE,  UrlX, TRUE)
LnkPlainBlank == Elem("link",   {},     0, TRUE,  UrlX, TRUE)
LnkCtaSelf    == Elem("link",   {2},    0, TRUE,  "/page", FALSE)
LnkCtaFrag    == Elem("link",   {1},    0, TRUE,  "#top", FALSE)

Elements == {BtnCls, BtnMulti, BtnHidden, LnkCtaBlank, LnkPlainBlank,
             LnkCtaSelf, LnkCtaFrag}

Pages == UNION {[1..n -> Elements] : n \in 0..MaxElems}

\* The pages every network condition and every selector match is run against.
CorePages == {<<>>, <<BtnCls, LnkCtaBlank>>, <<LnkCtaSelf, LnkPlainBlank>>}

\* A page whose first FallbackLinkCap links are fragment links and whose
\* next link leads elsewhere.
DeepLinkPage ==
    [k \in 1..(FallbackLinkCap + 1) |-> IF k <= FallbackLinkCap THEN LnkCtaFrag ELSE LnkPlainBlank]

\* href.startsWith('http') / href.startsWith('#')
StartsWithHttp(h) == h \in {UrlX, UrlY, UrlOther, TargetUrl}
StartsWithHash(h) == h = "#top"

\* new URL(href, targetUrl).toString() for the relative hrefs of the pages
ResolveRelative(h) ==
    CASE h = "/page"  -> TargetUrl
      [] h = "/other" -> UrlOther
      [] OTHER        -> TargetUrl

\* href.startsWith('http') ? href : new URL(href, targetUrl).toString()
FullUrl(h) == IF StartsWithHttp(h) THEN h ELSE ResolveRelative(h)

\* href && !href.startsWith('#')
UsableHref(h) == h # "" /\ ~StartsWithHash(h)


\* --------------------------------------------------------- candidate ranking
\* The pairs <<phrase, element index>> in the order the nested loops
\* "for (const text of ctaTexts) for (const el of matches)" visit them.
PairSeq(outer, n) ==
    [k \in 1..(outer * n) |-> <<((k - 1) \div n) + 1, ((k - 1) % n) + 1>>]

\* contentArea.getByRole('button', { name: /text/i }) && btn.isVisible()
IsButtonTextMatch(page, t, k) ==
    page[k].role = "button" /\ t \in page[k].cta /\ page[k].vis

\* contentArea.locator(sel + ':visible')
IsButtonClassMatch(page, s, k) ==
    page[k].cls = s /\ page[k].vis

\* contentArea.getByRole('link', { name: /text/i }) with a usable href
AnyLinkMatch(page, t, k) ==
    page[k].role = "link" /\ page[k].vis /\ UsableHref(page[k].href)
IsCtaLinkMatch(page, t, k) ==
    page[k].role = "link" /\ t \in page[k].cta /\ page[k].vis /\ UsableHref(page[k].href)

Cand(k, text, type, url) == [el |-> k, text |-> text, type |-> type, url |-> url]

\* First loop of STRATEGY 1: role=button elements by call-to-action text.
ButtonTextUncapped(page) ==
    LET n     == Len(page)
        Hit(p) == IsButtonTextMatch(page, p[1], p[2])
        hits  == SelectSeq(PairSeq(NumCta, n), Hit)
    IN  [j \in 1..Len(hits) |-> Cand(hits[j][2], hits[j][1], "button-text", "")]
ButtonTextCandidates(page) ==
    LET n     == Len(page)
        Hit(p) == IsButtonTextMatch(page, p[1], p[2])
        hits  == SelectSeq(PairSeq(NumCta, n), Hit)
        kept  == Take(hits, ButtonCap)
    IN  [j \in 1..Len(kept) |-> Cand(kept[j][2], kept[j][1], "button-text", "")]

\* Second loop of STRATEGY 1: buttons by CSS class / role selector, entered
\* only while fewer than three button candidates were found.
ButtonClassUncapped(page, have) ==
    LET n     == Len(page)
        Hit(p) == IsButtonClassMatch(page, p[1], p[2])
        hits  == SelectSeq(PairSeq(NumSel, n), Hit)
    IN  [j \in 1..Len(hits) |-> Cand(hits[j][2], 0, "button-class", "")]
ButtonClassCandidates(page, have) ==
    LET n     == Len(page)
        Hit(p) == IsButtonClassMatch(page, p[1], p[2])
        hits  == SelectSeq(PairSeq(NumSel, n), Hit)
        kept  == IF have < ButtonCap THEN Take(hits, ButtonCap - have) ELSE <<>>
    IN  [j \in 1..Len(kept) |-> Cand(kept[j][2], 0, "button-class", "")]

ButtonCandidates(page) ==
    LET bt == ButtonTextCandidates(page)
    IN  bt \o ButtonClassCandidates(page, Len(bt))

\* STRATEGY 2: role=link elements by call-to-action text.
LinkCandidates(page) ==
    LET n     == Len(page)
        Hit(p) == IsCtaLinkMatch(page, p[1], p[2])
        hits  == SelectSeq(PairSeq(NumCta, n), Hit)
        kept  == Take(hits, LinkCap)
    IN  [j \in 1..Len(kept) |->
            Cand(kept[j][2], kept[j][1], "cta-link", FullUrl(page[kept[j][2]].href))]

\* const allCandidates = [...buttonCandidates, ...linkCandidates]
LinksFirst(buttons, links) == links \o buttons
AllCandidates(buttons, links) == buttons \o links

\* Math.min(3, allCandidates.length)
NoClickCap(n) == n
ClickLimit(n) == Min(ClickCap, n)


\* ------------------------------------------------------------------ records
\* The object literal pushed at every capture site: url, source, method, ip
\* and proxy (proxyConfig || null).
RecordNullIp(url, method, ipNow, proxy) ==
    [url |-> url, source |-> TargetUrl, method |-> method, ip |-> Null, proxy |-> proxy]
MkRecord(url, method, ipNow, proxy) ==
    [url |-> url, source |-> TargetUrl, method |-> method, ip |-> ipNow, proxy |-> proxy]

\* if (newUrl && newUrl !== 'about:blank' && newUrl !== targetUrl)
AcceptAnyTab(newUrl) == newUrl # "" /\ newUrl # AboutBlank
NewTabAccept(newUrl) == newUrl # "" /\ newUrl # AboutBlank /\ newUrl # TargetUrl

\* The links the content-link fallback reads: a[href]:visible, first five.
FallbackLinks(page) ==
    LET IsLink(k) == page[k].role = "link" /\ page[k].vis
        idx == SelectSeq([k \in 1..Len(page) |-> k], IsLink)
    IN  Take(idx, FallbackLinkCap)

\* The records the fallback loop pushes for the first n links it reads.
RECURSIVE FallbackRecords(_, _, _, _, _)
FallbackRecords(page, links, n, ipNow, proxy) ==
    IF n = 0 THEN <<>>
    ELSE LET rest == FallbackRecords(page, links, n - 1, ipNow, proxy)
             href == page[links[n]].href
         IN  IF UsableHref(href) /\ FullUrl(href) # TargetUrl
             THEN Append(rest, MkRecord(FullUrl(href), "content-link-fallback", ipNow, proxy))
             ELSE rest

\* Whether s is an initial segment of t.
IsPrefix(s, t) == Len(s) <= Len(t) /\ SubSeq(t, 1, Len(s)) = s

\* GUARANTEED: if (captured.length === 0) captured.push({... 'original-page' ...})
GuaranteedSkipped(capt, ipNow, proxy) == capt
GuaranteedAlways(capt, ipNow, proxy) ==
    Append(capt, MkRecord(TargetUrl, "original-page", ipNow, proxy))
Guaranteed(capt, ipNow, proxy) ==
    IF Len(capt) = 0
    THEN <<MkRecord(TargetUrl, "original-page", ipNow, proxy)>>
    ELSE capt

MkResult(capt, lg, ipNow, proxy) ==
    [captured |-> capt, logs |-> lg, ip |-> ipNow, proxy |-> proxy]

\* The value the catch block returns.
ErrorResultEmpty(lg, ipNow, proxy) == MkResult(<<>>, lg, ipNow, proxy)
ErrorResult(lg, ipNow, proxy) ==
    MkResult(<<MkRecord(TargetUrl, "error-fallback", ipNow, proxy)>>, lg, ipNow, proxy)

\* How the catch block completes: it returns, unless push() threw in it.
CatchRethrows(sinkThrows) == "throw"
CatchCompletion(sinkThrows) == IF sinkThrows THEN "throw" ELSE "return"

\* finally { if (browser) await browser.close().catch(() => {}) }
CloseAttempted(browserVar) == browserVar

\* browser.close() resolves or rejects, when it is called at all.
CloseOutcomes(browserVar) == IF CloseAttempted(browserVar) THEN BOOLEAN ELSE {FALSE}

\* How the promise of runAutomation settles after the finally block: the
\* rejection of close() is swallowed by .catch(() => {}), so the completion
\* of the try/catch decides alone.
ClosePropagates(completionNow, closeRejects) ==
    IF completionNow = "return" /\ ~closeRejects THEN "returned" ELSE "rejected"
SettlePc(completionNow, closeRejects) ==
    IF completionNow = "return" THEN "returned" ELSE "rejected"

\* push = (m) => { logs.push(m); if (typeof log === 'function') log(m); }:
\* the lines a step appends to logs are passed to the callback in that order.
DeliverNothing(s, old, new) == s
Deliver(s, old, new) == s \o SubSeq(new, Len(old) + 1, Len(new))

\* ------------------------------------------------------------- environment
NoEffect == [kind |-> "idle", url |-> ""]

\* What a click that did not throw can do to the session.
ClickEffects ==
    {[kind |-> "none", url |-> ""],
     [kind |-> "tab", url |-> UrlX],
     [kind |-> "tab", url |-> TargetUrl],
     [kind |-> "tab", url |-> AboutBlank],
     [kind |-> "tabLoadFail", url |-> ""],
     [kind |-> "nav", url |-> UrlY]}

\* Where an attempt ends: catch (clickErr) only logs, and the for loop goes
\* on with the next candidate of the list ranked once.
ClickErrorAborts == "catch"
AfterClickError == "loop"
ReRankPc == "rank"
NextAttemptPc == "loop"

\* else if (candidate.url): only link candidates carry a url.
HrefAlways(cand) == TRUE
HasHref(cand) == cand.url # ""

\* context.waitForEvent('page', { timeout: 8000 }): the ways it settles.
NewPageWaitNoTimeout(e) ==
    IF e.kind \in {"tab", "tabLoadFail"} THEN {"page"} ELSE {}
NewPageWait(e) ==
    IF e.kind \in {"tab", "tabLoadFail"} THEN {"page"} ELSE {"timeout"}

\* page.request.get through the context's proxy / fetch from the Node process
IpViaPage(proxy) == IF proxy = Null THEN DirectIp ELSE ProxyExitIp
IpViaFetch == DirectIp

\* Where the run goes when the direct fetch fails too: the inner catch {} is
\* empty, so the run goes on to the navigation.
IpFailureAborts == "catch"
IpFailurePc == "goto"

\* The ways an identity request can end: an answer holding an ip, an answer
\* holding none, a failure (timeout, network error, body that is not JSON).
IpAnswers == {"ip", "noip", "fail"}

\* The content selectors a page can match (indices into contentSelectors).
PageSelectorSets == {{}, {2, 5}}
LastSelector(m) == IF m = {} THEN 0 ELSE CHOOSE x \in m : \A y \in m : x >= y
FirstSelector(m) == IF m = {} THEN 0 ELSE CHOOSE x \in m : \A y \in m : x <= y

\* -------------------------------------------------------------------- state
VARIABLES
    pc,          \* position of the run
    page,        \* the elements of the target page's content region
    selectors,   \* the content selectors the target page matches
    overlay,     \* the target page shows an element matching an overlay selector
    ipify,       \* the ways the identity endpoint can answer during the run
    proxyConfig, \* the proxyConfig argument, or Null
    logThrows,   \* whether the log callback passed by the caller throws
    logThrowsLast, \* whether that callback throws when called with the
                 \* success line of the run, and with no other line
    launched,    \* a browser process was launched
    browser,     \* the variable browser of runAutomation is assigned
    closeCalled, \* browser.close() was called
    ip,          \* the variable ip
    loaded,      \* page.goto(targetUrl) of line 54 succeeded
    pageUrl,     \* page.url()
    contentArea, \* index of the content selector in use, 0 for body
    all,         \* allCandidates
    i,           \* loop index of the click loop
    effect,      \* what the click of the current attempt did
    captured,    \* the variable captured
    logs,        \* the variable logs
    clicks,      \* candidate elements clicked so far
    openTabs,    \* pages of the context besides the main page
    completion,  \* how the try/catch completes: "return" or "throw"
    failKind,    \* the step whose failure sent the run to the catch block
    result,      \* the value runAutomation resolves to
    job,         \* the registry entry of the start-automation handler
    sink,        \* the lines the log callback was called with, in order
    closeFailed, \* browser.close() was called and rejected
    orphanWaits, \* newPagePromise objects created and never awaited
    madeBy,      \* for each record of captured, the index in allCandidates of the
                 \* candidate whose attempt pushed it (0: pushed outside the loop)
    jobs,        \* the registry: jobs (a Map from job id to job object)
    reqs,        \* the start-automation requests being handled
    batchReq,    \* the batch-automation request being handled
    writers      \* for each job id, the requests that wrote to its entry

vars == <<pc, page, selectors, overlay, ipify, proxyConfig, logThrows, logThrowsLast, launched, browser, closeCalled, ip,
          loaded, pageUrl, contentArea, all, i, effect, captured, logs, clicks,
          openTabs, completion, failKind, result, job, sink, closeFailed,
          orphanWaits, madeBy, jobs, reqs, batchReq, writers>>

serverVars == <<jobs, reqs, batchReq, writers>>

runVars == <<pc, page, selectors, overlay, ipify, proxyConfig, logThrows, logThrowsLast, launched, browser,
             closeCalled, ip, loaded, pageUrl, contentArea, all, i, effect, captured, logs,
             clicks, openTabs, completion, failKind, result, job, sink, closeFailed,
             orphanWaits, madeBy>>

\* ------------------------------------------------------------ job registry
Requests == 1..NumRequests
BatchWriter == 0

\* nanoid(): the ids handed out, one per request that creates a job.
JobIds == 1..(NumRequests + 1)

NoJob == [kind |-> "none", status |-> "none", hasUrls |-> FALSE, urls |-> <<>>, lines |-> 0,
          total |-> 0, completed |-> 0, failed |-> 0, results |-> <<>>,
          finished |-> FALSE, ip |-> Null]

\* const job = { status: 'running', urls: [], logs: [], ... } and the line
\* pushed right after jobs.set (proxy or direct connection).
NewJob == [kind |-> "single", status |-> "running", hasUrls |-> TRUE, urls |-> <<>>, lines |-> 1,
           total |-> 0, completed |-> 0, failed |-> 0, results |-> <<>>,
           finished |-> FALSE, ip |-> Null]

\* const batchJob = { status: 'running', total: urls.length, completed: 0,
\* failed: 0, results: [], startedAt }: it has no urls and no logs.
NewBatchJob(n) == [kind |-> "batch", status |-> "running", hasUrls |-> FALSE, urls |-> <<>>, lines |-> 0,
                   total |-> n, completed |-> 0, failed |-> 0, results |-> <<>>,
                   finished |-> FALSE, ip |-> Null]

\* The id nanoid() returns: one no entry of the registry has.
FreshId(reg) == 1 + Cardinality({id \in JobIds : reg[id] # NoJob})

\* No request has arrived yet.
ServerIdle ==
    /\ jobs = [id \in JobIds |-> NoJob]
    /\ reqs = [r \in Requests |-> [pc |-> "idle", id |-> 0]]
    /\ batchReq = [pc |-> "idle", id |-> 0, items |-> <<>>, k |-> 0,
                   launches |-> 0, openBrowsers |-> 0]
    /\ writers = [id \in JobIds |-> {}]

NoResult == [captured |-> <<>>, logs |-> <<>>, ip |-> "none", proxy |-> "none"]

Init ==
    /\ pc = "start"
    /\ \/ /\ page \in Pages \cup {DeepLinkPage}
          /\ selectors = {2, 5}
          /\ overlay = FALSE
          /\ ipify = {"ip"}
          /\ logThrows \in BOOLEAN
          /\ logThrowsLast = FALSE
       \/ /\ page \in CorePages
          /\ selectors \in PageSelectorSets
          /\ overlay \in BOOLEAN
          /\ ipify = IpAnswers
          /\ logThrows \in BOOLEAN
          /\ logThrowsLast = FALSE
       \/ /\ page \in CorePages
          /\ selectors = {2, 5}
          /\ overlay = FALSE
          /\ ipify = {"ip"}
          /\ logThrows = FALSE
          /\ logThrowsLast = TRUE
    /\ proxyConfig \in {Null, ProxyP}
    /\ launched = FALSE
    /\ browser = FALSE
    /\ closeCalled = FALSE
    /\ ip = Null
    /\ loaded = FALSE
    /\ pageUrl = AboutBlank
    /\ contentArea = 0
    /\ all = <<>>
    /\ i = 0
    /\ effect = NoEffect
    /\ captured = <<>>
    /\ logs = <<>>
    /\ clicks = 0
    /\ openTabs = 0
    /\ completion = "none"
    /\ failKind = "none"
    /\ result = NoResult
    /\ job = [status |-> "running", urls |-> <<>>, finished |-> FALSE]
    /\ sink = <<>>
    /\ closeFailed = FALSE
    /\ orphanWaits = 0
    /\ madeBy = <<>>
    /\ ServerIdle


\* ------------------------------------------------------------------ actions
\* push('[info] Starting button click automation...') at the top of the try.
\* push() appends to logs and then calls the log callback, which may throw.
Start ==
    /\ pc = "start"
    /\ logs' = Append(logs, "[info] Starting")
    /\ pc' = IF logThrows THEN "catch" ELSE "launch"
    /\ failKind' = IF logThrows THEN "log" ELSE failKind
    /\ UNCHANGED <<page, selectors, overlay, ipify, proxyConfig, logThrows, logThrowsLast, launched, browser, closeCalled, ip,
                   loaded, pageUrl, contentArea, all, i, effect, captured, clicks,
                   openTabs, completion, result, job>>
    /\ sink' = Deliver(sink, logs, logs')
    /\ UNCHANGED <<closeFailed, orphanWaits, madeBy, serverVars>>

\* ({ browser, context } = await getBrowserContext(proxyConfig)): launch() may
\* reject (nothing launched), newContext() may reject after the launch (the
\* destructuring assignment never runs), or both succeed.
OpenSession ==
    /\ pc = "launch"
    /\ \E o \in {"ok", "launchFail", "contextFail"} :
        /\ launched' = (o # "launchFail")
        /\ browser' = (o = "ok")
        /\ pc' = IF o = "ok" THEN "newPage" ELSE "catch"
        /\ failKind' = IF o = "ok" THEN failKind ELSE o
    /\ UNCHANGED <<page, selectors, overlay, ipify, proxyConfig, logThrows, logThrowsLast, closeCalled, ip, loaded, pageUrl,
                   contentArea, all, i, effect, captured, logs, clicks, openTabs,
                   completion, result, job>>
    /\ sink' = Deliver(sink, logs, logs')
    /\ UNCHANGED <<closeFailed, orphanWaits, madeBy, serverVars>>

\* const page = await context.newPage()
NewPage ==
    /\ pc = "newPage"
    /\ \E ok \in BOOLEAN :
        /\ pc' = IF ok THEN "ip" ELSE "catch"
        /\ failKind' = IF ok THEN failKind ELSE "newPageFail"
    /\ UNCHANGED <<page, selectors, overlay, ipify, proxyConfig, logThrows, logThrowsLast, launched, browser, closeCalled, ip,
                   loaded, pageUrl, contentArea, all, i, effect, captured, logs,
                   clicks, openTabs, completion, result, job>>
    /\ sink' = Deliver(sink, logs, logs')
    /\ UNCHANGED <<closeFailed, orphanWaits, madeBy, serverVars>>

\* IP detection through the page's request context (lines 38-43).
ResolveIp ==
    /\ pc = "ip"
    /\ \E o \in ipify :
        /\ ip' = IF o = "ip" THEN IpViaPage(proxyConfig) ELSE Null
        /\ logs' = Append(logs, IF o = "fail" THEN "[warn] IP detection failed"
                                ELSE "[info] IP detected")
        /\ pc' = IF o = "fail" THEN "ipFetch" ELSE "goto"
    /\ UNCHANGED <<page, selectors, overlay, ipify, proxyConfig, logThrows, logThrowsLast, launched, browser, closeCalled,
                   loaded, pageUrl, contentArea, all, i, effect, captured, clicks,
                   openTabs, completion, failKind, result, job>>
    /\ sink' = Deliver(sink, logs, logs')
    /\ UNCHANGED <<closeFailed, orphanWaits, madeBy, serverVars>>

\* The direct fetch tried in the catch of the first attempt (lines 45-50).
ResolveIpFetch ==
    /\ pc = "ipFetch"
    /\ \E o \in ipify :
        /\ ip' = IF o = "ip" THEN IpViaFetch ELSE Null
        /\ logs' = IF o = "fail" THEN logs ELSE Append(logs, "[info] IP via fetch")
        /\ pc' = IF o = "fail" THEN IpFailurePc ELSE "goto"
    /\ UNCHANGED <<page, selectors, overlay, ipify, proxyConfig, logThrows, logThrowsLast, launched, browser, closeCalled,
                   loaded, pageUrl, contentArea, all, i, effect, captured, clicks,
                   openTabs, completion, failKind, result, job>>
    /\ sink' = Deliver(sink, logs, logs')
    /\ UNCHANGED <<closeFailed, orphanWaits, madeBy, serverVars>>

\* push('[info] Opening: ...'); await page.goto(targetUrl, { timeout: 30000 })
Goto ==
    /\ pc = "goto"
    /\ logs' = Append(logs, "[info] Opening")
    /\ \E ok \in BOOLEAN :
        /\ loaded' = ok
        /\ pageUrl' = IF ok THEN TargetUrl ELSE pageUrl
        /\ pc' = IF ok THEN "overlays" ELSE "catch"
        /\ failKind' = IF ok THEN failKind ELSE "gotoFail"
    /\ UNCHANGED <<page, selectors, overlay, ipify, proxyConfig, logThrows, logThrowsLast, launched, browser, closeCalled, ip,
                   contentArea, all, i, effect, captured, clicks, openTabs,
                   completion, result, job>>
    /\ sink' = Deliver(sink, logs, logs')
    /\ UNCHANGED <<closeFailed, orphanWaits, madeBy, serverVars>>

\* Overlay dismissal: the first visible overlay is clicked (a failing click is
\* swallowed) and logged; then waitForTimeout(2000), which throws when the
\* page crashed meanwhile.
DismissOverlays ==
    /\ pc = "overlays"
    /\ logs' = IF overlay THEN Append(logs, "[info] Closed overlay") ELSE logs
    /\ \E o \in {"ok", "crash"} :
        /\ pc' = IF o = "crash" THEN "catch" ELSE "locate"
        /\ failKind' = IF o = "crash" THEN "pageCrash" ELSE failKind
    /\ UNCHANGED <<page, selectors, overlay, ipify, proxyConfig, logThrows, logThrowsLast, launched, browser, closeCalled, ip,
                   loaded, pageUrl, contentArea, all, i, effect, captured, clicks,
                   openTabs, completion, result, job>>
    /\ sink' = Deliver(sink, logs, logs')
    /\ UNCHANGED <<closeFailed, orphanWaits, madeBy, serverVars>>

\* Content area: first selector of contentSelectors with count > 0, else body.
LocateContent ==
    /\ pc = "locate"
    /\ contentArea' = FirstSelector(selectors)
    /\ logs' = Append(logs, IF FirstSelector(selectors) = 0
                            THEN "[info] Using body as content area"
                            ELSE "[info] Content area")
    /\ pc' = "rank"
    /\ UNCHANGED <<page, selectors, overlay, ipify, proxyConfig, logThrows, logThrowsLast, launched, browser, closeCalled, ip,
                   loaded, pageUrl, all, i, effect, captured, clicks, openTabs,
                   completion, failKind, result, job>>
    /\ sink' = Deliver(sink, logs, logs')
    /\ UNCHANGED <<closeFailed, orphanWaits, madeBy, serverVars>>

\* Candidate collection (lines 95-151).
Rank ==
    /\ pc = "rank"
    /\ all' = AllCandidates(ButtonCandidates(page), LinkCandidates(page))
    /\ logs' = Append(logs, "[info] Found buttons and CTA links")
    /\ i' = 0
    /\ pc' = "loop"
    /\ UNCHANGED <<page, selectors, overlay, ipify, proxyConfig, logThrows, logThrowsLast, launched, browser, closeCalled, ip,
                   loaded, pageUrl, contentArea, effect, captured, clicks, openTabs,
                   completion, failKind, result, job>>
    /\ sink' = Deliver(sink, logs, logs')
    /\ UNCHANGED <<closeFailed, orphanWaits, madeBy, serverVars>>

\* One iteration up to the click: the listener is set up, the element is
\* clicked; a click that throws ends the iteration in catch (clickErr).
ClickCandidate ==
    /\ pc = "loop"
    /\ i < ClickLimit(Len(all))
    /\ clicks' = clicks + 1
    /\ \/ /\ logs' = logs \o <<"[info] Clicking", "[warn] Click failed">>
          /\ i' = i + 1
          /\ pc' = AfterClickError
          /\ orphanWaits' = orphanWaits + 1
          /\ UNCHANGED <<effect, pageUrl, openTabs>>
       \/ \E e \in ClickEffects :
          /\ logs' = Append(logs, "[info] Clicking")
          /\ effect' = e
          /\ pageUrl' = IF e.kind = "nav" THEN e.url ELSE pageUrl
          /\ openTabs' = IF e.kind \in {"tab", "tabLoadFail"} THEN openTabs + 1 ELSE openTabs
          /\ pc' = "await"
          /\ UNCHANGED <<i, orphanWaits>>
    /\ UNCHANGED <<page, selectors, overlay, ipify, proxyConfig, logThrows, logThrowsLast, launched, browser, closeCalled, ip,
                   loaded, contentArea, all, captured, completion, failKind, result, job>>
    /\ sink' = Deliver(sink, logs, logs')
    /\ UNCHANGED <<closeFailed, madeBy, serverVars>>

\* The rest of the iteration: await newPagePromise, then either the new-tab
\* branch or the catch (newPageErr) branch (lines 164-214).
AwaitNewPage ==
    /\ pc = "await"
    /\ \E w \in NewPageWait(effect) :
        LET cand == all[i + 1]
            proxy == proxyConfig
        IN
        IF w = "page" /\ effect.kind = "tab"
        THEN \* loaded and closed; recorded when the URL is accepted
             /\ openTabs' = openTabs - 1
             /\ captured' = IF NewTabAccept(effect.url)
                            THEN Append(captured, MkRecord(effect.url, "button-click-newtab", ip, proxy))
                            ELSE captured
             /\ logs' = IF NewTabAccept(effect.url)
                        THEN Append(logs, "[capture] New tab") ELSE logs
             /\ UNCHANGED pageUrl
        ELSE \* timeout of the wait, or waitForLoadState threw
             IF pageUrl # TargetUrl
             THEN /\ captured' = Append(captured, MkRecord(pageUrl, "button-click-navigation", ip, proxy))
                  /\ \E restored \in BOOLEAN :
                        /\ pageUrl' = IF restored THEN TargetUrl ELSE pageUrl
                        /\ logs' = IF restored
                                   THEN Append(logs, "[capture] Same tab navigation")
                                   ELSE logs \o <<"[capture] Same tab navigation", "[warn] Click failed">>
                  /\ UNCHANGED openTabs
             ELSE IF HasHref(cand)
             THEN /\ captured' = Append(captured, MkRecord(cand.url, "href-direct", ip, proxy))
                  /\ logs' = Append(logs, "[capture] Direct href")
                  /\ UNCHANGED <<pageUrl, openTabs>>
             ELSE UNCHANGED <<captured, logs, pageUrl, openTabs>>
    /\ effect' = NoEffect
    /\ i' = i + 1
    /\ pc' = NextAttemptPc
    /\ UNCHANGED <<page, selectors, overlay, ipify, proxyConfig, logThrows, logThrowsLast, launched, browser, closeCalled, ip,
                   loaded, contentArea, all, clicks, completion, failKind, result, job>>
    /\ sink' = Deliver(sink, logs, logs')
    /\ madeBy' = IF Len(captured') > Len(captured) THEN Append(madeBy, i + 1) ELSE madeBy
    /\ UNCHANGED <<closeFailed, orphanWaits, serverVars>>

\* FALLBACK (lines 220-246): runs when nothing was captured; reading a link
\* may throw, which ends the loop silently with what was pushed so far.
ContentLinkFallback ==
    /\ pc = "loop"
    /\ i >= ClickLimit(Len(all))
    /\ IF Len(captured) = 0
       THEN LET links == FallbackLinks(page)
                m == Len(links)
            IN \E n \in 0..m : \E threw \in BOOLEAN :
                /\ (threw \/ n = m)
                /\ (threw => n = 0 \/ n < m)
                /\ captured' = FallbackRecords(page, links, n, ip, proxyConfig)
                /\ logs' = IF threw THEN logs ELSE Append(logs, "[fallback] Found content links")
       ELSE UNCHANGED <<captured, logs>>
    /\ pc' = "finalize"
    /\ UNCHANGED <<page, selectors, overlay, ipify, proxyConfig, logThrows, logThrowsLast, launched, browser, closeCalled, ip,
                   loaded, pageUrl, contentArea, all, i, effect, clicks, openTabs,
                   completion, failKind, result, job>>
    /\ sink' = Deliver(sink, logs, logs')
    /\ madeBy' = IF Len(captured) = 0 THEN [k \in 1..Len(captured') |-> 0] ELSE madeBy
    /\ UNCHANGED <<closeFailed, orphanWaits, serverVars>>

\* GUARANTEED record, success line, return (lines 248-262).  The push of
\* the success line appends it to logs and calls the callback; when the
\* callback throws there, the return is not reached and the catch block runs.
Finalize ==
    /\ pc = "finalize"
    /\ LET capt == Guaranteed(captured, ip, proxyConfig)
           lg   == IF Len(captured) = 0
                   THEN logs \o <<"[info] No new URLs found, returned original", "[success] Completed">>
                   ELSE Append(logs, "[success] Completed")
       IN /\ captured' = capt
          /\ logs' = lg
          /\ result' = IF logThrowsLast THEN result ELSE MkResult(capt, lg, ip, proxyConfig)
    /\ completion' = IF logThrowsLast THEN completion ELSE "return"
    /\ pc' = IF logThrowsLast THEN "catch" ELSE "finally"
    /\ failKind' = IF logThrowsLast THEN "logLast" ELSE failKind
    /\ UNCHANGED <<page, selectors, overlay, ipify, proxyConfig, logThrows, logThrowsLast, launched, browser, closeCalled, ip,
                   loaded, pageUrl, contentArea, all, i, effect, clicks, openTabs,
                   job>>
    /\ sink' = Deliver(sink, logs, logs')
    /\ madeBy' = IF Len(captured) = 0 THEN <<0>> ELSE madeBy
    /\ UNCHANGED <<closeFailed, orphanWaits, serverVars>>

\* catch (error): push the error line, return the error-fallback result.
Catch ==
    /\ pc = "catch"
    /\ LET lg == Append(logs, "[error]")
       IN /\ logs' = lg
          /\ completion' = CatchCompletion(logThrows)
          /\ result' = IF CatchCompletion(logThrows) = "return"
                       THEN ErrorResult(lg, ip, proxyConfig) ELSE result
    /\ pc' = "finally"
    /\ UNCHANGED <<page, selectors, overlay, ipify, proxyConfig, logThrows, logThrowsLast, launched, browser, closeCalled, ip,
                   loaded, pageUrl, contentArea, all, i, effect, captured, clicks,
                   openTabs, failKind, job>>
    /\ sink' = Deliver(sink, logs, logs')
    /\ UNCHANGED <<closeFailed, orphanWaits, madeBy, serverVars>>

\* finally: close the browser when the variable holds one; a rejection of
\* close() is swallowed.  Then the promise of runAutomation settles.
Finally ==
    /\ pc = "finally"
    /\ closeCalled' = CloseAttempted(browser)
    /\ \E rejects \in CloseOutcomes(browser) :
        /\ closeFailed' = rejects
        /\ openTabs' = IF CloseAttempted(browser) /\ ~rejects THEN 0 ELSE openTabs
        /\ pc' = SettlePc(completion, rejects)
    /\ UNCHANGED <<page, selectors, overlay, ipify, proxyConfig, logThrows, logThrowsLast, launched, browser, ip, loaded,
                   pageUrl, contentArea, all, i, effect, captured, logs, clicks,
                   completion, failKind, result, job>>
    /\ sink' = Deliver(sink, logs, logs')
    /\ UNCHANGED <<orphanWaits, madeBy, serverVars>>

\* POST /api/start-automation after the await: the try branch marks the job
\* completed, the catch branch marks it error (index.js).
Respond ==
    /\ pc \in {"returned", "rejected"}
    /\ job.status = "running"
    /\ job' = IF pc = "returned"
              THEN [status |-> "completed", urls |-> result.captured, finished |-> TRUE]
              ELSE [status |-> "error", urls |-> job.urls, finished |-> TRUE]
    /\ UNCHANGED <<pc, page, selectors, overlay, ipify, proxyConfig, logThrows, logThrowsLast, launched, browser, closeCalled,
                   ip, loaded, pageUrl, contentArea, all, i, effect, captured, logs,
                   clicks, openTabs, completion, failKind, result>>
    /\ sink' = Deliver(sink, logs, logs')
    /\ UNCHANGED <<closeFailed, orphanWaits, madeBy, serverVars>>

Next ==
    \/ Start
    \/ OpenSession
    \/ NewPage
    \/ ResolveIp
    \/ ResolveIpFetch
    \/ Goto
    \/ DismissOverlays
    \/ LocateContent
    \/ Rank
    \/ ClickCandidate
    \/ AwaitNewPage
    \/ ContentLinkFallback
    \/ Finalize
    \/ Catch
    \/ Finally
    \/ Respond

Spec == Init /\ [][Next]_vars

\* Every awaited step settles (it completes or its timeout fires), so the
\* run keeps taking steps while one is enabled.
LiveSpec == Init /\ [][Next]_vars /\ WF_vars(Next)

\* ------------------------------------------------------- request handlers
\* What the handlers see of a run: how its promise settles (it rejects only
\* when the callback it was given throws) and the captured array it returns.
RunSettlements(sinkThrows) == IF sinkThrows THEN {"rejected"} ELSE {"returned"}
RunSummaries == {<<"button-click-newtab">>}

\* The job object a request writes to: the const job of its own invocation.
WriteTargetLatest(r, rq, reg) == FreshId(reg) - 1
WriteTarget(r, rq, reg) == rq[r].id

\* POST /api/start-automation up to the call of runAutomation.
StartAutomation(r) ==
    /\ reqs[r].pc = "idle"
    /\ LET id == FreshId(jobs) IN
        /\ jobs' = [jobs EXCEPT ![id] = NewJob]
        /\ reqs' = [reqs EXCEPT ![r] = [pc |-> "running", id |-> id]]
        /\ writers' = [writers EXCEPT ![id] = @ \cup {r}]
    /\ UNCHANGED <<batchReq, runVars>>

\* msg => { console.log(...); job.logs.push(msg); } called by the run.
JobLog(r) ==
    /\ reqs[r].pc = "running"
    /\ LET t == WriteTarget(r, reqs, jobs) IN
        /\ jobs[t].lines < MaxLines
        /\ jobs' = [jobs EXCEPT ![t].lines = @ + 1]
        /\ writers' = [writers EXCEPT ![t] = @ \cup {r}]
    /\ UNCHANGED <<reqs, batchReq, runVars>>

\* job.status after the await: 'completed' in the try branch, 'error' in the
\* catch branch.
FinishStaysRunning(how) == "running"
FinishStatus(how) == IF how = "returned" THEN "completed" ELSE "error"

\* After the await: the try branch (job.urls, job.logs = logs, status,
\* finishedAt, ip, then the response) or the catch branch (status 'error',
\* finishedAt, one more line, then the response).
FinishAutomation(r) ==
    /\ reqs[r].pc = "running"
    /\ LET t == WriteTarget(r, reqs, jobs) IN
       \E how \in RunSettlements(FALSE) : \E capt \in RunSummaries :
        /\ jobs' = IF how = "returned"
                   THEN [jobs EXCEPT ![t].status = FinishStatus(how), ![t].urls = capt,
                                     ![t].lines = @ - 1, ![t].finished = TRUE,
                                     ![t].ip = IpViaPage(proxyConfig)]
                   ELSE [jobs EXCEPT ![t].status = FinishStatus(how), ![t].lines = @ + 1,
                                     ![t].finished = TRUE]
        /\ writers' = [writers EXCEPT ![t] = @ \cup {r}]
    /\ reqs' = [reqs EXCEPT ![r].pc = "done"]
    /\ UNCHANGED <<batchReq, runVars>>

\* The items a urls array can hold: a string, or null (typeof null is
\* 'object', and reading null.url throws a TypeError).
ItemKinds == {"string", "null"}
BatchInputs == UNION {[1..n -> ItemKinds] : n \in 1..MaxItems}

\* The same with items that are objects { url, proxy }.
ItemKindsWithObjects == {"string", "object", "null"}
BatchInputsWithObjects == UNION {[1..n -> ItemKindsWithObjects] : n \in 1..MaxItems}

\* const url = typeof item === 'string' ? item : item.url
ItemThrows(item) == item = "null"

\* getBrowserContext as the batch sees it: launch() rejects, newContext()
\* rejects after the launch, or the session opens.
SessionOutcomes == {"ok", "launchFail", "contextFail"}

\* The sessions of the runs all open.
SessionsOpen == {"ok"}

\* The run launched a browser process.
Launches(o) == o # "launchFail"

\* The browser a run leaves open when it has returned: the one launched
\* whose handle never reached the variable browser, so that the finally
\* block has nothing to close.
LeavesBrowser(o) == o = "contextFail"

\* The captured array of the run: the catch block's record when the session
\* did not open.
RunCaptured(o, capt) == IF o = "ok" THEN capt ELSE <<"error-fallback">>

\* POST /api/batch-automation up to the loop.
StartBatch(inputs) ==
    /\ batchReq.pc = "idle"
    /\ \E items \in inputs :
        LET id == FreshId(jobs) IN
        /\ jobs' = [jobs EXCEPT ![id] = NewBatchJob(Len(items))]
        /\ batchReq' = [pc |-> "loop", id |-> id, items |-> items, k |-> 0,
                        launches |-> 0, openBrowsers |-> 0]
        /\ writers' = [writers EXCEPT ![id] = @ \cup {BatchWriter}]
    /\ UNCHANGED <<reqs, runVars>>

\* One iteration of the loop: the item is read outside the inner try, so a
\* throw there ends the loop in the outer catch (status 'error'); the run is
\* awaited inside the inner try.
BatchItem(outcomes) ==
    /\ batchReq.pc = "loop"
    /\ batchReq.k < Len(batchReq.items)
    /\ LET id == batchReq.id
           n  == batchReq.k + 1
       IN
       IF ItemThrows(batchReq.items[n])
       THEN /\ jobs' = [jobs EXCEPT ![id].status = "error", ![id].finished = TRUE]
            /\ batchReq' = [batchReq EXCEPT !.pc = "done"]
       ELSE \E how \in RunSettlements(FALSE) : \E capt \in RunSummaries :
            \E o \in outcomes :
            /\ jobs' = IF how = "returned"
                       THEN [jobs EXCEPT
                               ![id].results = Append(@, [item |-> n, status |-> "completed",
                                                          captured |-> RunCaptured(o, capt)]),
                               ![id].completed = @ + 1]
                       ELSE [jobs EXCEPT
                               ![id].results = Append(@, [item |-> n, status |-> "failed",
                                                          captured |-> <<>>]),
                               ![id].failed = @ + 1]
            /\ batchReq' = [batchReq EXCEPT
                               !.k = n,
                               !.launches = IF Launches(o) THEN @ + 1 ELSE @,
                               !.openBrowsers = IF LeavesBrowser(o) THEN @ + 1 ELSE @]
    /\ writers' = [writers EXCEPT ![batchReq.id] = @ \cup {BatchWriter}]
    /\ UNCHANGED <<reqs, runVars>>

\* After the loop: batchJob.status = 'completed'.
BatchFinish ==
    /\ batchReq.pc = "loop"
    /\ batchReq.k = Len(batchReq.items)
    /\ jobs' = [jobs EXCEPT ![batchReq.id].status = "completed",
                             ![batchReq.id].finished = TRUE]
    /\ batchReq' = [batchReq EXCEPT !.pc = "done"]
    /\ writers' = [writers EXCEPT ![batchReq.id] = @ \cup {BatchWriter}]
    /\ UNCHANGED <<reqs, runVars>>

\* GET /api/export-excel?jobId=id: 404 unless the registry holds a completed
\* job under id; buildWorkbookBuffer(job.urls, ...) calls urls.forEach, which
\* throws when the job has no urls (500); else the workbook is sent.
UnknownId == 0
ExportExcel(reg, id) ==
    IF id \notin JobIds \/ reg[id] = NoJob \/ reg[id].status # "completed" THEN "404"
    ELSE IF ~reg[id].hasUrls THEN "500"
    ELSE "xlsx"

ServerNext ==
    \/ \E r \in Requests : StartAutomation(r)
    \/ \E r \in Requests : JobLog(r)
    \/ \E r \in Requests : FinishAutomation(r)
    \/ StartBatch(BatchInputs)
    \/ BatchItem(SessionsOpen)
    \/ BatchFinish

\* One batch request alone, each run seen through the way its session opens.
BatchNext ==
    \/ StartBatch(BatchInputsWithObjects)
    \/ BatchItem(SessionOutcomes)
    \/ BatchFinish

\* The server handling requests; the runs are seen through their outcomes.
ServerInit ==
    /\ Init
    /\ page = <<>> /\ selectors = {2, 5} /\ proxyConfig = Null
    /\ ~logThrows /\ ~logThrowsLast

ServerSpec == ServerInit /\ [][ServerNext]_vars

BatchSpec == ServerInit /\ [][BatchNext]_vars

\* ------------------------------------------------------ auxiliary predicates
Settled == pc \in {"returned", "rejected"}
Methods(capt) == {capt[k].method : k \in DOMAIN capt}
OriginalRecord == MkRecord(TargetUrl, "original-page", ip, proxyConfig)
NoInteractive(pg) == \A k \in DOMAIN pg : ~pg[k].vis
FatalBeforeLoad == failKind \in {"launchFail", "contextFail", "newPageFail", "gotoFail"}

\* ------------------------------------------------------------------- claims

\* C1: whenever the target page loaded, the returned result holds at least
\* one record, whatever the candidates and the outcomes of the attempts.
C1_NonEmptyWhenLoaded ==
    (pc = "returned" /\ loaded) => Len(result.captured) >= 1

C1_Witness ==
    /\ pc = "returned" /\ loaded /\ failKind = "none"
    /\ clicks = ClickCap
    /\ Len(result.captured) = 1
    /\ result.captured[1].method = "original-page"

\* C2: in a returned result every record carries the result-level ip and
\* proxy, which are the run's ip and proxyConfig.
C2_SharedIdentity ==
    pc = "returned" =>
        /\ result.ip = ip /\ result.proxy = proxyConfig
        /\ \A k \in DOMAIN result.captured :
              /\ result.captured[k].ip = result.ip
              /\ result.captured[k].proxy = result.proxy

C2_Witness ==
    /\ pc = "returned"
    /\ Len(result.captured) >= 2
    /\ result.ip = ProxyExitIp /\ result.proxy = ProxyP
    /\ Cardinality(Methods(result.captured)) >= 2

\* C3 as stated: no record of a returned result has the target URL as its url.
C3_NoRecordEqualsTarget ==
    pc = "returned" =>
        \A k \in DOMAIN result.captured : result.captured[k].url # TargetUrl

\* C3 amended: a record whose url is the target URL is an original-page, an
\* error-fallback or a href-direct record; those two synthetic records always
\* have the target URL; new-tab, navigation and content-link-fallback records
\* never have it.
C3_TargetOnlyInSyntheticOrHref ==
    pc = "returned" =>
        \A k \in DOMAIN result.captured :
            LET r == result.captured[k] IN
            /\ r.method \in {"original-page", "error-fallback"} => r.url = TargetUrl
            /\ r.method \in {"button-click-newtab", "button-click-navigation",
                             "content-link-fallback"} => r.url # TargetUrl

C3_Witness ==
    /\ pc = "returned"
    /\ \E k \in DOMAIN page : page[k] = LnkCtaSelf
    /\ \E k \in DOMAIN result.captured : result.captured[k].method = "content-link-fallback"

\* C4: the click loop never clicks more than ClickCap candidate elements,
\* however many candidates were ranked.
C4_ClicksBounded == clicks <= ClickCap

C4_Witness == pc = "finalize" /\ Len(all) > ClickCap /\ clicks = ClickCap

C6_LaunchedBrowserClosed == Settled => (launched => closeCalled)

\* C7: on a run that completed the fallback ladder the original-page record
\* is present exactly when no other record exists, it is then the only
\* record and carries the target URL and the run's ip and proxy; a page with
\* no interactive element yields exactly that record; the error path never
\* holds it.
C7_OriginalPageIffNothingElse ==
    pc = "returned" =>
        LET c == result.captured IN
        /\ failKind = "none" =>
              /\ ("original-page" \in Methods(c)) <=> (Methods(c) \ {"original-page"} = {})
              /\ "original-page" \in Methods(c) => c = <<OriginalRecord>>
              /\ NoInteractive(page) => c = <<OriginalRecord>>
        /\ failKind # "none" => "original-page" \notin Methods(c)

C7_Witness ==
    /\ pc = "returned" /\ failKind = "none"
    /\ page # <<>> /\ NoInteractive(page)
    /\ result.captured = <<OriginalRecord>>
    /\ ip # Null

\* C8: a run that failed fatally before the page loaded ends with at most one
\* record, its browser released, and the job of the handler marked as failed.
C8_FatalFailureSignalled ==
    (job.finished /\ FatalBeforeLoad) =>
        /\ Len(result.captured) <= 1
        /\ (launched => closeCalled)
        /\ job.status = "error"

\* C9: every run eventually reaches its terminal state, and it returns (it
\* rejects only when the log callback throws).
C9_RunSettles == <>(Settled /\ (~logThrows => pc = "returned"))

C9_Witness ==
    /\ pc = "returned" /\ failKind = "none"
    /\ clicks = 2
    /\ "button-click-navigation" \in Methods(result.captured)
    /\ ip = DirectIp /\ proxyConfig = ProxyP

\* C10: with a log callback that does not throw the run never rejects: it
\* resolves to an object with captured, logs, ip and proxy.
C10_AlwaysResolves ==
    (Settled /\ ~logThrows) =>
        /\ pc = "returned"
        /\ result # NoResult
        /\ result.logs = logs
        /\ Len(result.captured) >= 1
        /\ result.ip \in {Null, DirectIp, ProxyExitIp}
        /\ result.proxy \in {Null, ProxyP}

C10_Witness ==
    /\ pc = "returned" /\ ~logThrows
    /\ failKind = "launchFail"
    /\ result = ErrorResult(logs, Null, proxyConfig)

\* ------------------------------------------------- scenarios and identities
InLogs(line) == \E k \in DOMAIN logs : logs[k] = line

\* Scenario A: the content region holds exactly one interactive element, a
\* visible link with target=_blank and href UrlX.
ScenarioA(pg) ==
    /\ Len(pg) = 1
    /\ pg[1].role = "link" /\ pg[1].vis /\ pg[1].blank /\ pg[1].href = UrlX

\* Scenario D: the content region holds exactly one interactive element, a
\* visible button.
ScenarioD(pg) == Len(pg) = 1 /\ pg[1].role = "button" /\ pg[1].vis

C12_SingleButtonOneNavigationRecord ==
    (/\ pc = "returned" /\ failKind = "none" /\ ScenarioD(page)
     /\ clicks >= 1
     /\ ~InLogs("[warn] Click failed")
     /\ Methods(result.captured) = {"button-click-navigation"}
     /\ Len(result.captured) = clicks)
        => result.captured = <<MkRecord(UrlY, "button-click-navigation", ip, proxyConfig)>>

\* C13: with a proxy configured, an identity that is not null was observed
\* through that proxy.
C13_IdentityThroughProxy ==
    (proxyConfig # Null /\ ip # Null) => ip = ProxyExitIp

\* Both identity requests of the run failed.
AllProvidersFailed ==
    /\ InLogs("[warn] IP detection failed")
    /\ ~InLogs("[info] IP via fetch")
    /\ pc # "ipFetch"

\* C14: when every identity request fails the run is not aborted for it: ip
\* stays null, the run goes on to the navigation, and the returned result and
\* each of its records carry ip null.
C14_IdentityFailureNotFatal ==
    AllProvidersFailed =>
        /\ ip = Null
        /\ pc = "catch" => failKind # "none"
        /\ pc = "returned" =>
              /\ InLogs("[info] Opening")
              /\ result.ip = Null
              /\ \A k \in DOMAIN result.captured : result.captured[k].ip = Null

C14_Witness ==
    /\ AllProvidersFailed
    /\ pc = "returned" /\ failKind = "none"
    /\ clicks >= 1
    /\ "button-click-newtab" \in Methods(result.captured)
    /\ result.ip = Null

\* C15: every record made by an interaction (new tab, same-tab navigation,
\* direct href) has a url different from the target URL.
C15_InteractionDestinationDiffers ==
    \A k \in DOMAIN captured :
        captured[k].method \in {"button-click-newtab", "button-click-navigation",
                                "href-direct"}
            => captured[k].url # TargetUrl

\* C16: the lines the log callback was called with are, in the same order,
\* the lines of logs at every moment of the run, and so the logs of the
\* result the run returns.
C16_SinkEqualsLogs ==
    /\ sink = logs
    /\ pc = "returned" => result.logs = sink

C16_Witness ==
    /\ pc = "returned" /\ failKind = "none"
    /\ InLogs("[warn] Click failed")
    /\ Len(sink) >= 6
    /\ result.logs = sink

\* C17: when the batch handler has finished, every item of the input has
\* exactly one entry in results, in input order, the status is completed and
\* completed + failed = total = the number of entries.
C17_EveryItemGetsOneEntry ==
    batchReq.pc = "done" =>
        LET b == jobs[batchReq.id] IN
        /\ Len(b.results) = Len(batchReq.items)
        /\ \A k \in DOMAIN b.results : b.results[k].item = k
        /\ b.status = "completed"
        /\ b.completed + b.failed = b.total
        /\ b.total = Len(b.results)

\* C18: the export by job id answers with a spreadsheet exactly for the ids
\* the registry holds a completed job under, and with an error otherwise.
C18_ExportForEveryCompletedJob ==
    \A id \in JobIds \cup {UnknownId} :
        (ExportExcel(jobs, id) = "xlsx")
            <=> (id \in JobIds /\ jobs[id] # NoJob /\ jobs[id].status = "completed")

\* C19: whatever the interleaving of the requests, the entry of a job is
\* written only by the request that created it.
C19_OnlyCreatorWrites ==
    \A id \in JobIds : \A w \in writers[id] :
        \/ w = BatchWriter /\ batchReq.id = id
        \/ w \in Requests /\ reqs[w].id = id

C19_Witness ==
    /\ \A r \in Requests : reqs[r].pc = "done"
    /\ reqs[1].id > reqs[NumRequests].id
    /\ \A r \in Requests : jobs[reqs[r].id].status = "completed"
    /\ batchReq.pc = "loop" /\ batchReq.k >= 1

\* C20: a close() that rejects changes nothing of how the run settles: the
\* run returns exactly when its try/catch returned, with the result built
\* there.
C20_CloseFailureSwallowed ==
    (closeFailed /\ Settled) =>
        /\ pc = "returned" <=> completion = "return"
        /\ pc = "returned" =>
              result = IF failKind = "none"
                       THEN MkResult(captured, logs, ip, proxyConfig)
                       ELSE ErrorResult(logs, ip, proxyConfig)

C20_Witness ==
    /\ closeFailed
    /\ pc = "returned" /\ failKind = "none"
    /\ clicks >= 1
    /\ "button-click-navigation" \in Methods(result.captured)

\* ------------------------------------------------------ phases of the run
\* The phase a position of the run belongs to: session open, identity
\* resolution, target page load, content-region location, candidate
\* ranking, interaction attempts, finalization (or the catch block), the
\* finally block, settled.
PhaseOf(p) ==
    CASE p = "start"                  -> 0
      [] p \in {"launch", "newPage"}  -> 1
      [] p \in {"ip", "ipFetch"}      -> 2
      [] p \in {"goto", "overlays"}   -> 3
      [] p = "locate"                 -> 4
      [] p = "rank"                   -> 5
      [] p \in {"loop", "await"}      -> 6
      [] p \in {"finalize", "catch"}  -> 7
      [] p = "finally"                -> 8
      [] OTHER                        -> 9

\* C21: the phases of a run follow each other in the fixed order and none is
\* entered again after a later one began; ip does not change once the
\* navigation to the target has started; no candidate is clicked before the
\* ranking has finished.
C21_PhasesInOrder ==
    [][/\ PhaseOf(pc') >= PhaseOf(pc)
       /\ PhaseOf(pc) >= 3 => ip' = ip
       /\ clicks' > clicks => InLogs("[info] Found buttons and CTA links")]_vars

C21_Witness ==
    /\ pc = "returned" /\ failKind = "none"
    /\ InLogs("[info] IP via fetch")
    /\ contentArea # 0
    /\ clicks >= 2

\* C22: the identity is null only when every provider was tried and none
\* gave an IP: a run that has started its navigation with ip null went
\* through the failure of the first request to the second one.
C22_NullOnlyAfterEveryProvider ==
    (InLogs("[info] Opening") /\ ip = Null) => InLogs("[warn] IP detection failed")

\* The content region has been chosen.
Located ==
    InLogs("[info] Content area") \/ InLogs("[info] Using body as content area")

C24_AttemptsStartOnTarget ==
    (pc = "loop" /\ i >= 1 /\ i < ClickLimit(Len(all))) => pageUrl = TargetUrl

ClickMethods == {"button-click-newtab", "button-click-navigation", "href-direct"}

\* C26: an attempt is recorded as href-direct only when its click had no
\* effect, that is when no new tab appeared and the page's URL did not change.
C26_DirectHrefOnlyWithoutEffect ==
    [][(/\ pc = "await"
        /\ Len(captured') > Len(captured)
        /\ captured'[Len(captured')].method = "href-direct")
           => effect.kind = "none"]_vars

\* C27: when an attempt is about to start, the main page is the only page
\* open in the session.
C27_OnlyMainPageAtAttemptStart ==
    (pc = "loop" /\ i < ClickLimit(Len(all))) => openTabs = 0

\* C28: no attempt leaves a wait for a new page behind that nothing awaits.
C28_NoWaitLeftPending == orphanWaits = 0

\* The candidates have been collected.
Ranked == InLogs("[info] Found buttons and CTA links")
CountType(types) == Cardinality({k \in DOMAIN all : all[k].type \in types})
HasCtaLink(pg) == \E k \in DOMAIN pg : \E t \in 1..NumCta : IsCtaLinkMatch(pg, t, k)

\* C29 as stated: the ranked list never holds more candidates than the cap,
\* and the link tier adds nothing once the button tiers have filled it.
C29_ListWithinCap ==
    Ranked =>
        /\ Len(all) <= ButtonCap
        /\ CountType({"button-text", "button-class"}) = ButtonCap
              => CountType({"cta-link"}) = 0

\* C29 amended: the two button tiers share a cap, the selector tier adding
\* only while the buttons collected are below it; the link tier has a cap of
\* its own and is filled whatever the buttons found, so the list holds up to
\* ButtonCap + LinkCap candidates.
C29_CapsPerStrategy ==
    Ranked =>
        /\ CountType({"button-text", "button-class"}) <= ButtonCap
        /\ CountType({"button-text"}) = ButtonCap => CountType({"button-class"}) = 0
        /\ CountType({"cta-link"}) <= LinkCap
        /\ Len(all) <= ButtonCap + LinkCap
        /\ HasCtaLink(page) => CountType({"cta-link"}) >= 1

C29_Witness ==
    /\ Ranked
    /\ CountType({"button-text", "button-class"}) = ButtonCap
    /\ CountType({"button-class"}) >= 1
    /\ CountType({"cta-link"}) >= 1

\* A visible anchor with a usable href that resolves away from the target.
HasUsableAnchor(pg) ==
    \E k \in DOMAIN pg :
        /\ pg[k].role = "link" /\ pg[k].vis
        /\ UsableHref(pg[k].href) /\ FullUrl(pg[k].href) # TargetUrl

\* C30: when the content region holds a usable anchor, wherever it stands,
\* and no interaction produced a record, the content-link fallback (its
\* links read without an error) yields a record.
C30_UsableAnchorIsRecorded ==
    (/\ pc = "returned" /\ failKind = "none"
     /\ HasUsableAnchor(page)
     /\ Methods(result.captured) \cap ClickMethods = {}
     /\ InLogs("[fallback] Found content links"))
        => "content-link-fallback" \in Methods(result.captured)

\* ------------------------------------------------------ records and tiers
\* The records of captured pushed by an attempt of the click loop.
ByAttempt(capt, by) == {k \in DOMAIN capt : by[k] # 0}

\* The tier of the candidate whose attempt pushed record k.
TierOf(k) == all[madeBy[k]].type

\* C31 as stated: the ranking tier of the clicked candidate determines the
\* method of the record: same tier, same method; other tier, other method.
C31_TierDeterminesMethod ==
    \A j, k \in ByAttempt(captured, madeBy) :
        (TierOf(j) = TierOf(k)) <=> (captured[j].method = captured[k].method)

\* C31 amended: the outcome of the click determines the method: a new tab
\* that loaded gives button-click-newtab, else a page URL other than the
\* target gives button-click-navigation, else the href of a link candidate
\* gives href-direct; a button candidate never yields href-direct.
C31_OutcomeDeterminesMethod ==
    [][(pc = "await" /\ Len(captured') > Len(captured)) =>
          LET m == captured'[Len(captured')].method
              cand == all[i + 1]
          IN  /\ m \in ClickMethods
              /\ m = "button-click-newtab" <=> effect.kind = "tab"
              /\ m = "button-click-navigation" <=> (effect.kind # "tab" /\ pageUrl # TargetUrl)
              /\ m = "href-direct" <=>
                    (effect.kind # "tab" /\ pageUrl = TargetUrl /\ cand.type = "cta-link")
              /\ m = "href-direct" => captured'[Len(captured')].url = cand.url]_vars

C31_Witness ==
    /\ pc = "returned"
    /\ \E j, k \in ByAttempt(captured, madeBy) :
          /\ TierOf(j) = TierOf(k)
          /\ captured[j].method = "button-click-newtab"
          /\ captured[k].method = "button-click-navigation"
    /\ \E j, k \in ByAttempt(captured, madeBy) :
          /\ TierOf(j) # TierOf(k)
          /\ captured[j].method = captured[k].method

\* The position of the first line m in logs (0 when absent).
FirstLine(m) ==
    IF InLogs(m) THEN CHOOSE k \in DOMAIN logs : logs[k] = m /\ \A j \in 1..(k - 1) : logs[j] # m
    ELSE 0

\* C32: every transient failure leaves a line in the logs; in particular,
\* when the first identity provider failed, the second provider, failing or
\* not, leaves a line of its own before the navigation is announced.
C32_EveryFailureLogged ==
    (InLogs("[warn] IP detection failed") /\ InLogs("[info] Opening"))
        => FirstLine("[info] Opening") > FirstLine("[warn] IP detection failed") + 1

\* C33: within one batch, a browser is launched only while no browser
\* launched by an earlier item of that batch is still open.
C33_OneBrowserAtATime ==
    [][batchReq'.launches > batchReq.launches => batchReq.openBrowsers = 0]_vars

\* C34: the records of a returned result are in discovery order: every
\* record an attempt appended is in the result at the place it was appended,
\* and a record of an earlier attempt stands before one of a later attempt.
C34_DiscoveryOrderKept ==
    pc = "returned" =>
        /\ \A k \in ByAttempt(captured, madeBy) :
              k \in DOMAIN result.captured /\ result.captured[k] = captured[k]
        /\ \A j, k \in ByAttempt(captured, madeBy) : j < k => madeBy[j] < madeBy[k]

\* C35: among the candidates of one tier the ranked order is the order of
\* the elements in the document.
C35_SameTierDomOrder ==
    Ranked =>
        \A j, k \in DOMAIN all :
            (j < k /\ all[j].type = all[k].type) => all[j].el <= all[k].el

\* The shapes of a result.
ShapeClicks(c) == Len(c) \in 1..ClickCap /\ Methods(c) \subseteq ClickMethods
ShapeFallback(c) == Len(c) \in 1..FallbackLinkCap /\ Methods(c) = {"content-link-fallback"}
ShapeOriginal(c) == Len(c) = 1 /\ Methods(c) = {"original-page"}
ShapeError(c) == Len(c) = 1 /\ Methods(c) = {"error-fallback"}

\* C36: a returned result holds between 1 and 5 records and has exactly one
\* of the four shapes: click records only (at most 3), fallback records only
\* (at most 5), the single original-page record, the single error-fallback
\* record.
C36_FourShapes ==
    pc = "returned" =>
        LET c == result.captured IN
        /\ Len(c) \in 1..FallbackLinkCap
        /\ ShapeClicks(c) \/ ShapeFallback(c) \/ ShapeOriginal(c) \/ ShapeError(c)
        /\ ShapeError(c) <=> failKind # "none"
        /\ ShapeClicks(c) => \A k \in DOMAIN c : madeBy[k] # 0

C36_Witness ==
    /\ pc = "returned" /\ failKind = "none"
    /\ ShapeFallback(result.captured)
    /\ Len(result.captured) = 2
    /\ clicks >= 1

\* The candidates clicked so far are the first Attempted entries of the list.
Attempted == IF pc = "await" THEN i + 1 ELSE i

\* C37: the list is the button candidates (at most 3) followed by the link
\* candidates (at most 3), at most 6 entries; no link is attempted before a
\* button, and with three buttons no link is ever clicked.
C37_ButtonsThenLinks ==
    Ranked =>
        /\ all = ButtonCandidates(page) \o LinkCandidates(page)
        /\ Len(ButtonCandidates(page)) <= ButtonCap
        /\ Len(LinkCandidates(page)) <= LinkCap
        /\ Len(all) <= ButtonCap + LinkCap
        /\ \A j, k \in DOMAIN all :
              (all[j].type = "cta-link" /\ all[k].type # "cta-link") => k < j
        /\ Attempted <= Len(all)
        /\ CountType({"button-text", "button-class"}) = ButtonCap =>
              \A k \in 1..Attempted : all[k].type # "cta-link"

C37_Witness ==
    /\ pc = "returned" /\ failKind = "none"
    /\ CountType({"button-text", "button-class"}) = ButtonCap
    /\ CountType({"cta-link"}) >= 1
    /\ clicks = ClickCap
    /\ Len(result.captured) = ClickCap

\* C38: the ranked list holds each element at most once.
C38_EachElementOnce ==
    Ranked => \A j, k \in DOMAIN all : j # k => all[j].el # all[k].el

\* C39: a job of start-automation is created running; its status changes
\* only from running, to completed or to error; once it is not running its
\* status, urls, ip and finishedAt stay as they are; finishedAt is set exactly
\* when the status is not running; and the response of a request is sent
\* only when its job is not running any more.
C39_StatusChangesOnce ==
    [][\A id \in JobIds :
         /\ (jobs[id] = NoJob /\ jobs'[id].kind = "single") =>
               (jobs'[id].status = "running" /\ ~jobs'[id].finished)
         /\ jobs[id].kind = "single" =>
               /\ jobs'[id].status # jobs[id].status =>
                     (jobs[id].status = "running" /\ jobs'[id].status \in {"completed", "error"})
               /\ jobs[id].status # "running" =>
                     /\ jobs'[id].status = jobs[id].status
                     /\ jobs'[id].urls = jobs[id].urls
                     /\ jobs'[id].ip = jobs[id].ip
                     /\ jobs'[id].finished = jobs[id].finished
               /\ jobs'[id].finished <=> (jobs'[id].status # "running")
         /\ \A r \in Requests :
               (reqs'[r].pc = "done" /\ reqs'[r].id = id) => jobs'[id].status # "running"]_vars

C39_Witness ==
    /\ \E r \in Requests :
          /\ reqs[r].pc = "done"
          /\ jobs[reqs[r].id].status = "completed"
          /\ jobs[reqs[r].id].finished
          /\ jobs[reqs[r].id].urls # <<>>
    /\ \E r \in Requests :
          /\ reqs[r].pc = "running"
          /\ jobs[reqs[r].id].status = "running"
          /\ jobs[reqs[r].id].lines >= 2

====
